---- MODULE Spec2Model ----
(***************************************************************************)
(* A model of the OpenSenseCam worker process (worker.py): the SharedState *)
(* fix registry, the EXIF builder make_exif with its helpers _rat and      *)
(* _deg_to_dms, the GPSPoller and CameraPoller loops, and main().          *)
(*                                                                         *)
(* Python's None is the empty sequence <<>> and a present value v is the   *)
(* one-element sequence <<v>>, so that optional values compare in TLC.     *)
(***************************************************************************)
EXTENDS Integers, Sequences, FiniteSets, TLC

VARIABLES
    \* ---- SharedState (worker.py 157-173)
    latest_fix,     \* self._latest_fix: None or Some(fix)
    lock,           \* self._lock: Free or the thread that holds it
    rpc,            \* per thread: where it is inside set_fix / get_fix
    arg,            \* per thread: the fix_dict argument of its set_fix call
    ret,            \* per thread: the value its last get_fix returned
    raised,         \* per thread: TRUE when its last registry call raised
    reg_out,        \* how many lines set_fix has printed (worker.py 165)
    \* ---- history of the registry's callers
    npublished,     \* how many set_fix calls have finished
    best,           \* the best Fix among the finished set_fix calls (BestOf)
    ncalls,         \* per thread: how many registry calls it has issued
    snapSeen,       \* `best' as it was when thread s began its get_fix
    snapQuiet,      \* TRUE when no set_fix was in progress at that moment
    snapN,          \* `npublished' as it was at that moment
    snapDone,       \* TRUE when thread s has finished the get_fix it began
    \* ---- module state of worker.py
    GPS_AVAILABLE,  \* worker.py 7-16: the receiver library was imported
    PICAMERA2,      \* worker.py 59-64: the camera library was imported
    camera_mode,    \* worker.py 77: cfg.get("camera_mode"), None or a mode
    interval,       \* worker.py 76: the configured capture interval
    gps,            \* worker.py 57: the fields of the receiver object
    clock,          \* the wall clock, in ticks
    \* ---- main, GPSPoller, CameraPoller
    main_pc,        \* where main() is
    main_out,       \* the lines main() has printed, in order
    main_exc,       \* the step of main() that raised, "" when none did
    gps_pc,         \* where GPSPoller.run is
    gps_stop,       \* GPSPoller._stop_event
    gps_exc,        \* the step of GPSPoller.run that raised, "" when none did
    cam_pc,         \* where CameraPoller.run is
    cam_stop,       \* CameraPoller._stop
    pc2,            \* CameraPoller._pc2: "none", "open", "closed" or "close_failed"
    now_local,      \* run's local now_local
    fix,            \* run's local fix
    rd,             \* make_exif's locals lat, lon, alt
    exif_dict,      \* run's local exif_dict
    cam_exc,        \* the step of run that raised, "" when none did
    \* ---- what the capture loop has done
    photo,          \* the file the current cycle has written: None or Some
    nphotos,        \* how many files were written
    ncycles,        \* how many capture cycles have begun
    elapsed,        \* the time the current cycle has spent capturing
    prev_cycle,     \* number, start and elapsed of the cycle before, its wait
    cam_out,        \* how many "[Camera] No camera found.." lines run has printed
    \* ---- make_exif called on its own
    ex_in,          \* the arguments and the receiver it was called with
    ex_out,         \* what it returned, or that it raised
    \* ---- _deg_to_dms called on its own
    dms_in,         \* the decimal degrees it is called with
    dms_out         \* None, or what it returned for dms_in and for -dms_in

regVars == <<latest_fix, lock, rpc, arg, ret, raised, reg_out>>
histVars == <<npublished, best, ncalls, snapSeen, snapQuiet, snapN, snapDone>>
envVars == <<GPS_AVAILABLE, PICAMERA2, camera_mode, interval>>
mainVars == <<main_pc, main_out, main_exc>>
gpsVars == <<gps_pc, gps_stop, gps_exc>>
camVars == <<cam_pc, cam_stop, pc2, now_local, fix, rd, exif_dict, cam_exc>>
outVars == <<photo, nphotos, ncycles, elapsed, prev_cycle, cam_out>>
pipeVars == <<envVars, gps, clock, mainVars, gpsVars, camVars, outVars>>
exifVars == <<ex_in, ex_out>>
dmsVars == <<dms_in, dms_out>>
vars == <<regVars, histVars, pipeVars, exifVars, dmsVars>>

\* ------------------------------------------------------------------ bounds
MaxQuality == 1
MaxPublishes == 1
MaxSnapshots == 2
MaxSats == 1

\* ------------------------------------------------------------- Python values
None == <<>>
Some(v) == <<v>>
IsNone(o) == o = <<>>
Val(o) == o[1]

\* ------------------------------------------------ natural numbers of any size
\* TLC's integers are 32 bits wide; the numerators and denominators of the
\* Fractions that _rat builds from a float are not.  A natural number is the
\* sequence of its digits in base Base, least significant first, without
\* leading zeros; zero is <<>>.
Base == 2^15

\* F applied to arguments that are evaluated once, before F is applied.
Let1(v, F(_)) == CHOOSE r \in { F(x) : x \in {v} } : TRUE
Let2(v, w, F(_, _)) == CHOOSE r \in { F(x, y) : x \in {v}, y \in {w} } : TRUE

\* x without its leading zeros.
BNorm(x) ==
    Let1(x, LAMBDA a :
        IF \A i \in 1..Len(a) : a[i] = 0 THEN <<>>
        ELSE SubSeq(a, 1, CHOOSE n \in 1..Len(a) :
                              a[n] # 0 /\ \A j \in (n + 1)..Len(a) : a[j] = 0))

\* A TLC integer n >= 0 as such a number.
BFromInt(n) ==
    Let1(n, LAMBDA k :
        BNorm(<<k % Base, (k \div Base) % Base, k \div (Base * Base)>>))

RECURSIVE BToIntFrom(_, _)
BToIntFrom(a, i) ==
    IF i > Len(a) THEN 0 ELSE a[i] + Base * BToIntFrom(a, i + 1)

BToInt(x) == Let1(x, LAMBDA a : BToIntFrom(a, 1))

RECURSIVE BCmpFrom(_, _, _)
BCmpFrom(a, b, i) ==
    IF i = 0 THEN 0
    ELSE IF a[i] # b[i] THEN (IF a[i] < b[i] THEN -1 ELSE 1)
    ELSE BCmpFrom(a, b, i - 1)

\* -1, 0 or 1 as x is below, equal to or above y.
BCmp(x, y) ==
    Let2(x, y, LAMBDA a, b :
        IF Len(a) # Len(b) THEN (IF Len(a) < Len(b) THEN -1 ELSE 1)
        ELSE BCmpFrom(a, b, Len(a)))

\* Digit i of a, zero beyond its length.
Digit(a, i) == IF i > Len(a) THEN 0 ELSE a[i]

RECURSIVE BAddFrom(_, _, _, _)
BAddFrom(a, b, i, c) ==
    IF i > Len(a) /\ i > Len(b) THEN BFromInt(c)
    ELSE Let1(Digit(a, i) + Digit(b, i) + c, LAMBDA t :
             <<t % Base>> \o BAddFrom(a, b, i + 1, t \div Base))

BAdd(x, y) == Let2(x, y, LAMBDA a, b : BAddFrom(a, b, 1, 0))

RECURSIVE BSubFrom(_, _, _, _)
BSubFrom(a, b, i, borrow) ==
    IF i > Len(a) THEN <<>>
    ELSE Let1(a[i] - Digit(b, i) - borrow, LAMBDA t :
             <<t % Base>> \o BSubFrom(a, b, i + 1, IF t < 0 THEN 1 ELSE 0))

\* x - y for x >= y.
BSub(x, y) == Let2(x, y, LAMBDA a, b : BNorm(BSubFrom(a, b, 1, 0)))

RECURSIVE BMulSmallFrom(_, _, _, _)
BMulSmallFrom(a, m, i, c) ==
    IF i > Len(a) THEN BFromInt(c)
    ELSE Let1(a[i] * m + c, LAMBDA t :
             <<t % Base>> \o BMulSmallFrom(a, m, i + 1, t \div Base))

\* x * m for a small m (m < Base).
BMulSmall(x, m) == Let2(x, m, LAMBDA a, k : BNorm(BMulSmallFrom(a, k, 1, 0)))

RECURSIVE BMulFrom(_, _, _)
BMulFrom(a, b, j) ==
    IF j > Len(b) THEN <<>>
    ELSE BAdd(BMulSmall(a, b[j]), <<0>> \o BMulFrom(a, b, j + 1))

BMul(x, y) == Let2(x, y, LAMBDA a, b : BNorm(BMulFrom(a, b, 1)))

\* The largest digit g with d * g <= cur, found bit by bit from the top.
RECURSIVE DigitSearch(_, _, _, _)
DigitSearch(cur, d, bit, acc) ==
    IF bit = 0 THEN acc
    ELSE Let1(IF BCmp(BMulSmall(d, acc + bit), cur) <= 0 THEN acc + bit ELSE acc,
              LAMBDA next : DigitSearch(cur, d, bit \div 2, next))

\* Quotient and remainder of a by b > 0: long division, one digit of a at a
\* time from the most significant.
RECURSIVE BDivModFrom(_, _, _)
BDivModFrom(a, b, i) ==
    IF i > Len(a) THEN [q |-> <<>>, r |-> <<>>]
    ELSE Let1(BDivModFrom(a, b, i + 1), LAMBDA h :
         Let1(BNorm(<<a[i]>> \o h.r), LAMBDA cur :
         Let1(IF BCmp(cur, b) < 0 THEN 0 ELSE DigitSearch(cur, b, Base \div 2, 0),
              LAMBDA dig :
                  [q |-> BNorm(<<dig>> \o h.q),
                   r |-> BSub(cur, BMulSmall(b, dig))])))

BDivMod(x, d) == Let2(x, d, LAMBDA a, b : BDivModFrom(a, b, 1))

\* The number of binary digits of a TLC integer n >= 0.
RECURSIVE IntBitLen(_)
IntBitLen(n) == IF n = 0 THEN 0 ELSE 1 + IntBitLen(n \div 2)

DigitBits == IntBitLen(Base - 1)

\* 2^k.
BPow2(k) ==
    Let1(k, LAMBDA e :
        [i \in 1..(e \div DigitBits + 1) |->
            IF i = e \div DigitBits + 1 THEN 2^(e % DigitBits) ELSE 0])

\* The number of binary digits of x.
BitLen(x) ==
    Let1(x, LAMBDA a :
        IF a = <<>> THEN 0
        ELSE DigitBits * (Len(a) - 1) + IntBitLen(a[Len(a)]))

\* The number of trailing zero binary digits of x > 0.
RECURSIVE IntTrailingZeros(_)
IntTrailingZeros(n) == IF n % 2 = 1 THEN 0 ELSE 1 + IntTrailingZeros(n \div 2)

RECURSIVE TrailingZerosFrom(_, _)
TrailingZerosFrom(a, i) ==
    IF a[i] # 0 THEN IntTrailingZeros(a[i])
    ELSE DigitBits + TrailingZerosFrom(a, i + 1)

TrailingZeros(x) == Let1(x, LAMBDA a : TrailingZerosFrom(a, 1))

BIsOdd(x) == Let1(x, LAMBDA a : a # <<>> /\ a[1] % 2 = 1)

BAbsDiff(x, y) ==
    Let2(x, y, LAMBDA a, b : IF BCmp(a, b) >= 0 THEN BSub(a, b) ELSE BSub(b, a))

\* ------------------------------------------------------------ Python floats
\* A float is [neg, mag]: its sign and its magnitude counted in units of
\* 2^-FracBits.  Every binary64 value that is zero or of magnitude at least
\* 2^-(FracBits - 52) and below 2^53 is such a number, and +, -, * on them,
\* rounded to MantBits significant bits (nearest, ties to even), are the
\* binary64 operations.
FracBits == 60
MantBits == 53

One == BPow2(FracBits)

\* Round to nearest, ties to even, at MantBits significant bits.
Round(mag) ==
    Let1(mag, LAMBDA m :
        IF BitLen(m) <= MantBits THEN m
        ELSE Let1(BPow2(BitLen(m) - MantBits), LAMBDA unit :
             Let1(BDivMod(m, unit), LAMBDA dm :
             Let1(BCmp(BMulSmall(dm.r, 2), unit), LAMBDA c :
                 BMul(IF c > 0 \/ (c = 0 /\ BIsOdd(dm.q))
                      THEN BAdd(dm.q, <<1>>) ELSE dm.q, unit)))))

\* The guard bits FloatOfRatio keeps below the last place of its quotient.
GuardBits == 8

\* float(n / den) for integers n and den > 0: the float nearest to the quotient,
\* as Python reads a decimal literal or divides two ints.  The quotient is
\* taken with guard bits and a sticky bit for what the division dropped.
FloatOfRatio(n, den) ==
    Let1(BDivMod(BMul(BFromInt(IF n < 0 THEN -n ELSE n),
                      BPow2(FracBits + GuardBits)), BFromInt(den)),
         LAMBDA dm :
             [neg |-> n < 0,
              mag |-> BDivMod(Round(IF dm.r = <<>> \/ BIsOdd(dm.q) THEN dm.q
                                    ELSE BAdd(dm.q, <<1>>)),
                              BPow2(GuardBits)).q])

\* float(n) for an integer n of at most MantBits binary digits.
FloatOfInt(n) ==
    Let1(n, LAMBDA k :
        [neg |-> k < 0, mag |-> BMul(BFromInt(IF k < 0 THEN -k ELSE k), One)])

\* abs(x), x >= 0, int(x) for x >= 0, x - n and x * n for a non-negative x and
\* a small natural n.
FAbs(x) == [x EXCEPT !.neg = FALSE]
FGeZero(x) == ~x.neg
FInt(x) == BToInt(BDivMod(x.mag, One).q)
FSubInt(x, n) == [neg |-> FALSE, mag |-> BSub(x.mag, BMul(BFromInt(n), One))]
FMulInt(x, n) == [neg |-> FALSE, mag |-> Round(BMulSmall(x.mag, n))]

\* ------------------------------------------------- fractions.Fraction (_rat)
\* Fraction(x) of a non-negative float: its exact value in lowest terms.
FractionOf(x) ==
    Let1(x.mag, LAMBDA m :
        IF m = <<>> THEN [num |-> <<>>, den |-> <<1>>]
        ELSE Let1(IF TrailingZeros(m) < FracBits THEN TrailingZeros(m)
                  ELSE FracBits,
                  LAMBDA sh : [num |-> BDivMod(m, BPow2(sh)).q,
                               den |-> BPow2(FracBits - sh)]))

\* The loop of Fraction.limit_denominator: the continued-fraction convergents
\* p1/q1 of n/d while the next denominator stays within max_den.
RECURSIVE Convergents(_, _, _, _, _, _, _)
Convergents(p0, q0, p1, q1, n, d, max_den) ==
    Let1(BDivMod(n, d), LAMBDA dm :
    Let1(BAdd(q0, BMul(dm.q, q1)), LAMBDA q2 :
        IF BCmp(q2, max_den) > 0
        THEN [p0 |-> p0, q0 |-> q0, p1 |-> p1, q1 |-> q1]
        ELSE Let1(BAdd(p0, BMul(dm.q, p1)), LAMBDA p2 :
                 Convergents(p1, q1, p2, q2, d, dm.r, max_den))))

\* The two candidates of limit_denominator, of which it returns the closer to
\* f, the convergent bound2 when they are equally close.  The distances are
\* compared scaled by the three denominators.
Closer(f, bound1, bound2) ==
    IF BCmp(BMul(BAbsDiff(BMul(bound2.num, f.den), BMul(f.num, bound2.den)),
                 bound1.den),
            BMul(BAbsDiff(BMul(bound1.num, f.den), BMul(f.num, bound1.den)),
                 bound2.den)) <= 0
    THEN bound2 ELSE bound1

\* Fraction.limit_denominator(max_den): the closest fraction to f with a
\* denominator of at most max_den.
limit_denominator(f, max_den) ==
    Let2(f, max_den, LAMBDA g, md :
        IF BCmp(g.den, md) <= 0 THEN g
        ELSE Let1(Convergents(<<>>, <<1>>, <<1>>, <<>>, g.num, g.den, md),
                  LAMBDA c :
             Let1(BDivMod(BSub(md, c.q0), c.q1).q, LAMBDA k :
             Let2([num |-> BAdd(c.p0, BMul(k, c.p1)),
                   den |-> BAdd(c.q0, BMul(k, c.q1))],
                  [num |-> c.p1, den |-> c.q1],
                  LAMBDA bound1, bound2 : Closer(g, bound1, bound2)))))

\* _rat(x, max_den) for a non-negative float x: <<numerator, denominator>>.
_rat(x, max_den) ==
    Let1(limit_denominator(FractionOf(x), BFromInt(max_den)),
         LAMBDA f : <<BToInt(f.num), BToInt(f.den)>>)

\* The default max_den of _rat.
DefaultMaxDen == 1000000

\* _deg_to_dms(dd): degrees, minutes and seconds of abs(dd), each by _rat.
_deg_to_dms(dd) ==
    Let1(FAbs(dd), LAMBDA a :
    Let1(FInt(a), LAMBDA d :
    Let1(FMulInt(FSubInt(a, d), 60), LAMBDA m_float :
    Let1(FInt(m_float), LAMBDA m :
    Let1(FMulInt(FSubInt(m_float, m), 60), LAMBDA s :
        [i \in 1..3 |->
            _rat(IF i = 1 THEN FloatOfInt(d) ELSE IF i = 2 THEN FloatOfInt(m) ELSE s,
                 DefaultMaxDen)])))))

\* ---------------------------------------------------------------- threads
Publishers == {"p1", "p2"}
Snapshotter == "s"
Camera == "cam"
Gps == "gps"
RegThreads == Publishers \cup {Snapshotter, Camera, Gps}
Free == "free"

\* A Fix as the registry's callers pass it: an object with a fix_quality
\* attribute.  kind tells an attribute-bearing object from the plain dict
\* that dict(fix_dict) builds.
Fixes ==
    [kind : {"obj"}, fix_quality : 0..MaxQuality, satellites : 0..MaxSats]

\* dict(fix_dict), worker.py 169 and 173: a plain dict with the same items.
DictOf(f) == [f EXCEPT !.kind = "dict"]

\* Whether evaluating held.fix_quality succeeds: None has no attributes and a
\* plain dict has items, not attributes, so both raise AttributeError.
HasFixQualityAttr(held) == (~IsNone(held)) /\ Val(held).kind = "obj"

\* ------------------------------------------------------- SharedState.__init__
SharedStateInit ==
    /\ lock = Free
    /\ latest_fix = None

\* ------------------------------------------------------- SharedState.set_fix
\* `with self._lock:' entered.
SetFixAcquire(t) ==
    /\ rpc[t] = "set_wait"
    /\ lock = Free
    /\ lock' = t
    /\ rpc' = [rpc EXCEPT ![t] = "set_locked"]
    /\ UNCHANGED <<latest_fix, arg, ret, raised, reg_out>>

\* A comparison that takes the first candidate when nothing is held.
SetFixCompareAcceptFirst(held, cand) ==
    IF IsNone(held) THEN "replace"
    ELSE IF ~HasFixQualityAttr(held) THEN "raise"
    ELSE IF Val(held).fix_quality <= cand.fix_quality THEN "skip"
    ELSE "replace"

\* The comparison of line 164 and the branch it selects.
SetFixCompare(held, cand) ==
    IF ~HasFixQualityAttr(held) THEN "raise"
    ELSE IF Val(held).fix_quality <= cand.fix_quality THEN "skip"
    ELSE "replace"

\* A body that keeps the lock when it raises, as acquire() with a release()
\* after the body and no try/finally would.
SetFixBodyKeepingLock(t) ==
    /\ rpc[t] = "set_locked"
    /\ lock = t
    /\ LET branch == SetFixCompare(latest_fix, Val(arg[t])) IN
        /\ latest_fix' = IF branch = "replace" THEN Some(DictOf(Val(arg[t])))
                         ELSE latest_fix
        /\ raised' = [raised EXCEPT ![t] = (branch = "raise")]
        /\ reg_out' = IF branch = "skip" THEN reg_out + 1 ELSE reg_out
        /\ lock' = IF branch = "raise" THEN t ELSE Free
    /\ rpc' = [rpc EXCEPT ![t] = "idle"]
    /\ UNCHANGED <<arg, ret>>

\* The body of the with block, with the print of line 165 in its first
\* branch; leaving the block releases the lock, also when the body raised.
SetFixBody(t) ==
    /\ rpc[t] = "set_locked"
    /\ lock = t
    /\ LET branch == SetFixCompare(latest_fix, Val(arg[t])) IN
        /\ latest_fix' = IF branch = "replace" THEN Some(DictOf(Val(arg[t])))
                         ELSE latest_fix
        /\ raised' = [raised EXCEPT ![t] = (branch = "raise")]
        /\ reg_out' = IF branch = "skip" THEN reg_out + 1 ELSE reg_out
    /\ lock' = Free
    /\ rpc' = [rpc EXCEPT ![t] = "idle"]
    /\ UNCHANGED <<arg, ret>>

\* ------------------------------------------------------- SharedState.get_fix
GetFixAcquire(t) ==
    /\ rpc[t] = "get_wait"
    /\ lock = Free
    /\ lock' = t
    /\ rpc' = [rpc EXCEPT ![t] = "get_locked"]
    /\ UNCHANGED <<latest_fix, arg, ret, raised, reg_out>>

\* A get_fix that hands out a placeholder Fix while nothing is held.
GetFixValueDefault(held) ==
    IF IsNone(held)
    THEN Some([kind |-> "dict", fix_quality |-> 0, satellites |-> 0])
    ELSE Some(DictOf(Val(held)))

\* `return dict(self._latest_fix) if self._latest_fix else None'
GetFixValue(held) == IF IsNone(held) THEN None ELSE Some(DictOf(Val(held)))

GetFixBody(t) ==
    /\ rpc[t] = "get_locked"
    /\ lock = t
    /\ ret' = [ret EXCEPT ![t] = GetFixValue(latest_fix)]
    /\ raised' = [raised EXCEPT ![t] = FALSE]
    /\ lock' = Free
    /\ rpc' = [rpc EXCEPT ![t] = "idle"]
    /\ UNCHANGED <<latest_fix, arg, reg_out>>

\* ------------------------------------------ callers of the registry (threads)
\* Two threads that publish and one that takes snapshots, as in the
\* concurrency scenario of the registry.
\* The Fix a snapshot is expected to show after one more publish: the one of
\* maximal quality, the later one when two have the same quality.
BestOf(sofar, f) ==
    IF IsNone(sofar) \/ f.fix_quality >= Val(sofar).fix_quality
    THEN Some(DictOf(f)) ELSE sofar

SetFixInProgress == \E t \in Publishers : rpc[t] # "idle"

PublishCall(t, f) ==
    /\ rpc[t] = "idle"
    /\ ncalls[t] < MaxPublishes
    /\ rpc' = [rpc EXCEPT ![t] = "set_wait"]
    /\ arg' = [arg EXCEPT ![t] = Some(f)]
    /\ ncalls' = [ncalls EXCEPT ![t] = @ + 1]
    /\ UNCHANGED <<latest_fix, lock, ret, raised, reg_out>>
    /\ UNCHANGED <<npublished, best, snapSeen, snapQuiet, snapN, snapDone>>
    /\ UNCHANGED <<pipeVars, exifVars, dmsVars>>

PublishEnter(t) ==
    /\ SetFixAcquire(t)
    /\ UNCHANGED <<histVars, pipeVars, exifVars, dmsVars>>

PublishReturn(t) ==
    /\ SetFixBody(t)
    /\ npublished' = npublished + 1
    /\ best' = BestOf(best, Val(arg[t]))
    /\ UNCHANGED <<ncalls, snapSeen, snapQuiet, snapN, snapDone>>
    /\ UNCHANGED <<pipeVars, exifVars, dmsVars>>

SnapshotCall ==
    /\ rpc[Snapshotter] = "idle"
    /\ ncalls[Snapshotter] < MaxSnapshots
    /\ rpc' = [rpc EXCEPT ![Snapshotter] = "get_wait"]
    /\ ncalls' = [ncalls EXCEPT ![Snapshotter] = @ + 1]
    /\ snapSeen' = best
    /\ snapN' = npublished
    /\ snapQuiet' = ~SetFixInProgress
    /\ snapDone' = FALSE
    /\ UNCHANGED <<latest_fix, lock, arg, ret, raised, reg_out, npublished, best>>
    /\ UNCHANGED <<pipeVars, exifVars, dmsVars>>

SnapshotEnter ==
    /\ GetFixAcquire(Snapshotter)
    /\ UNCHANGED <<histVars, pipeVars, exifVars, dmsVars>>

SnapshotReturn ==
    /\ GetFixBody(Snapshotter)
    /\ snapDone' = TRUE
    /\ UNCHANGED <<npublished, best, ncalls, snapSeen, snapQuiet, snapN>>
    /\ UNCHANGED <<pipeVars, exifVars, dmsVars>>

RegIdle ==
    /\ SharedStateInit
    /\ rpc = [t \in RegThreads |-> "idle"]
    /\ arg = [t \in RegThreads |-> None]
    /\ ret = [t \in RegThreads |-> None]
    /\ raised = [t \in RegThreads |-> FALSE]
    /\ reg_out = 0
    /\ npublished = 0
    /\ best = None
    /\ ncalls = [t \in RegThreads |-> 0]
    /\ snapSeen = None
    /\ snapN = 0
    /\ snapQuiet = TRUE
    /\ snapDone = FALSE

RegNext ==
    \/ \E t \in Publishers, f \in Fixes : PublishCall(t, f)
    \/ \E t \in Publishers : PublishEnter(t)
    \/ \E t \in Publishers : PublishReturn(t)
    \/ SnapshotCall
    \/ SnapshotEnter
    \/ SnapshotReturn

\* --------------------------------------------------------------- wall clock
\* Time is counted in ticks; a calendar day has TicksPerDay of them.
MaxClock == 6
TicksPerDay == 4

\* strftime('%Y:%m:%d') and strftime('%Y:%m:%d %H:%M:%S') of a clock reading:
\* the day, and the day with the time of day.
DateStr(t) == <<t \div TicksPerDay>>
DateTimeStr(t) == <<t \div TicksPerDay, t % TicksPerDay>>

\* strftime("photo_%Y%m%d_%H%M%S.jpg"), worker.py 282.
FileName(t) == <<"photo", t \div TicksPerDay, t % TicksPerDay>>

\* ------------------------------------------------------------- the receiver
\* n / 2 as a float.
FloatOfHalves(n) ==
    [neg |-> n < 0,
     mag |-> BMul(BFromInt(IF n < 0 THEN -n ELSE n), BPow2(FracBits - 1))]

\* A struct_time as the receiver reports it.
StructTime(day, h, m, sec) ==
    [tm_yday |-> day, tm_hour |-> h, tm_min |-> m, tm_sec |-> sec]

\* The fields of the receiver object before it has decoded anything.
NoReading ==
    [latitude |-> None, longitude |-> None, altitude_m |-> None,
     timestamp_utc |-> None, has_fix |-> FALSE, fix_quality |-> 0]

Reading(lat, lon, alt, ts, q) ==
    [latitude |-> Some(FloatOfHalves(lat)), longitude |-> Some(FloatOfHalves(lon)),
     altitude_m |-> alt, timestamp_utc |-> ts, has_fix |-> q >= 1,
     fix_quality |-> q]

\* What gps.update() can leave in the receiver object.
Readings ==
    { Reading(3, -1, Some(FloatOfHalves(5)), Some(StructTime(0, 1, 2, 3)), 1),
      Reading(-3, 1, None, None, 0) }

\* ----------------------------------------------------------------- make_exif
\* A tag group is a function from the names of the tags it holds.
Tag(name, value) == name :> value
EmptyGroup == <<>>
HasTag(group, name) == name \in DOMAIN group

\* worker.py 113-130: the groups make_exif always fills.
BaseExif(now_local_dt) ==
    LET dt_str == DateTimeStr(now_local_dt) IN
    [zeroth |-> Tag("DateTime", dt_str) @@ Tag("Make", "Raspberry Pi")
                @@ Tag("Model", "Camera Module 3")
                @@ Tag("Software", "OpenSenseCam Script"),
     Exif |-> Tag("DateTimeOriginal", dt_str) @@ Tag("DateTimeDigitized", dt_str)
              @@ Tag("UserComment", "{\"project\":\"OpenSenseCam\"}"),
     GPS |-> EmptyGroup,
     first |-> EmptyGroup,
     Interop |-> EmptyGroup]

\* _deg_to_dms of the coordinates the receiver reports here, each converted
\* once.
ReadingCoords ==
    { Val(r.latitude) : r \in Readings } \cup { Val(r.longitude) : r \in Readings }
DmsOfReadingCoords == [v \in ReadingCoords |-> _deg_to_dms(v)]

\* worker.py 141-152 for a latitude that is not None; lat, lon, alt and ts are
\* the receiver's fields as read and utcnow is datetime.now(timezone.utc).
GpsGroup(lat, lon, alt, ts, utcnow) ==
    [name \in {"GPSLatitude", "GPSLongitude"} |->
        DmsOfReadingCoords[IF name = "GPSLatitude" THEN Val(lat) ELSE Val(lon)]]
    @@ Tag("GPSLatitudeRef", IF FGeZero(Val(lat)) THEN "N" ELSE "S")
    @@ Tag("GPSLongitudeRef", IF FGeZero(Val(lon)) THEN "E" ELSE "W")
    @@ (IF IsNone(alt) THEN EmptyGroup
        ELSE Tag("GPSAltitudeRef", IF FGeZero(Val(alt)) THEN 0 ELSE 1)
             @@ Tag("GPSAltitude", _rat(FAbs(Val(alt)), 1000)))
    @@ Tag("GPSDateStamp", DateStr(utcnow))
    @@ Tag("GPSTimeStamp",
           [i \in 1..3 |->
               _rat(FloatOfInt(IF i = 1 THEN Val(ts).tm_hour
                               ELSE IF i = 2 THEN Val(ts).tm_min
                               ELSE Val(ts).tm_sec), DefaultMaxDen)])

\* make_exif(now_local_dt, fix) with the receiver fields it reads and the clock
\* it reads passed in.  The parameter fix is never read.  `lon >= 0' raises
\* TypeError for a longitude of None and gps.timestamp_utc.tm_hour raises
\* AttributeError for a timestamp of None.
make_exif(now_local_dt, fix_arg, avail, lat, lon, alt, ts, utcnow) ==
    IF ~avail \/ IsNone(lat)
    THEN [raised |-> FALSE, exif |-> BaseExif(now_local_dt)]
    ELSE IF IsNone(lon) \/ IsNone(ts)
    THEN [raised |-> TRUE, exif |-> BaseExif(now_local_dt)]
    ELSE [raised |-> FALSE,
          exif |-> [BaseExif(now_local_dt) EXCEPT
                        !.GPS = GpsGroup(lat, lon, alt, ts, utcnow)]]

\* ------------------------------------------------------------ pipeline bounds
MaxInterval == 2
MaxElapsed == 1
MaxCycles == 2

\* Daemon threads run only while the process, that is main(), is alive.
ProcessAlive == main_pc \notin {"returned", "crashed"}

\* ------------------------------------------------------------ GPSPoller.run
\* worker.py 194: the loop test.
GpsCheckStop ==
    /\ ProcessAlive
    /\ gps_pc = "top"
    /\ gps_pc' = IF gps_stop THEN "done" ELSE "update"
    /\ UNCHANGED <<gps_stop, gps_exc, gps, clock>>
    /\ UNCHANGED <<envVars, mainVars, camVars, outVars>>
    /\ UNCHANGED <<regVars, histVars, exifVars, dmsVars>>

\* worker.py 199: gps.update() decodes a sentence into the receiver object,
\* decodes nothing new, or raises on a transport error; run catches nothing.
GpsUpdate(r, ok) ==
    /\ ProcessAlive
    /\ gps_pc = "update"
    /\ gps' = IF ok THEN r ELSE gps
    /\ gps_pc' = IF ok THEN "report" ELSE "crashed"
    /\ gps_exc' = IF ok THEN gps_exc ELSE "update"
    /\ UNCHANGED <<gps_stop, clock>>
    /\ UNCHANGED <<envVars, mainVars, camVars, outVars>>
    /\ UNCHANGED <<regVars, histVars, exifVars, dmsVars>>

\* worker.py 200-237: the report of the reading.  With a fix the format
\* strings read gps.timestamp_utc.tm_mon and format gps.latitude as a float,
\* which raises for None.  Nothing is handed to the SharedState.
GpsReport ==
    /\ ProcessAlive
    /\ gps_pc = "report"
    /\ LET fails == gps.has_fix /\ (IsNone(gps.timestamp_utc) \/ IsNone(gps.latitude)
                                     \/ IsNone(gps.longitude))
       IN /\ gps_pc' = IF fails THEN "crashed" ELSE "sleep"
          /\ gps_exc' = IF fails THEN "report" ELSE gps_exc
    /\ UNCHANGED <<gps_stop, gps, clock>>
    /\ UNCHANGED <<envVars, mainVars, camVars, outVars>>
    /\ UNCHANGED <<regVars, histVars, exifVars, dmsVars>>

\* worker.py 240: time.sleep(self.interval) has passed.
GpsSleep ==
    /\ ProcessAlive
    /\ gps_pc = "sleep"
    /\ gps_pc' = "top"
    /\ UNCHANGED <<gps_stop, gps_exc, gps, clock>>
    /\ UNCHANGED <<envVars, mainVars, camVars, outVars>>
    /\ UNCHANGED <<regVars, histVars, exifVars, dmsVars>>

\* --------------------------------------------------------- CameraPoller.run
\* worker.py 280-284: the loop test and the start of a cycle, up to the call of
\* get_fix.
CamCheckStop ==
    /\ ProcessAlive
    /\ cam_pc = "top"
    /\ IF cam_stop
       THEN /\ cam_pc' = "finally"
            /\ UNCHANGED <<now_local, rpc, ncycles, elapsed, photo>>
       ELSE /\ ncycles < MaxCycles
            /\ now_local' = clock
            /\ rpc' = [rpc EXCEPT ![Camera] = "get_wait"]
            /\ ncycles' = ncycles + 1
            /\ elapsed' = 0
            /\ photo' = None
            /\ cam_pc' = "get_fix"
    /\ UNCHANGED <<cam_stop, pc2, fix, rd, exif_dict, cam_exc>>
    /\ UNCHANGED <<nphotos, prev_cycle, cam_out>>
    /\ UNCHANGED <<latest_fix, lock, arg, ret, raised, reg_out>>
    /\ UNCHANGED <<envVars, gps, clock, mainVars, gpsVars>>
    /\ UNCHANGED <<histVars, exifVars, dmsVars>>

\* worker.py 284: self.state.get_fix(), the lock taken.
CamGetFixEnter ==
    /\ ProcessAlive
    /\ cam_pc = "get_fix"
    /\ GetFixAcquire(Camera)
    /\ UNCHANGED <<pipeVars, histVars, exifVars, dmsVars>>

\* worker.py 284-286: get_fix returns, and the test for a camera.
CamGetFixReturn ==
    /\ ProcessAlive
    /\ cam_pc = "get_fix"
    /\ GetFixBody(Camera)
    /\ fix' = GetFixValue(latest_fix)
    /\ cam_pc' = IF PICAMERA2 /\ pc2 = "open" THEN "capture" ELSE "no_camera"
    /\ UNCHANGED <<cam_stop, pc2, now_local, rd, exif_dict, cam_exc>>
    /\ UNCHANGED <<envVars, gps, clock, mainVars, gpsVars, outVars>>
    /\ UNCHANGED <<histVars, exifVars, dmsVars>>

\* worker.py 308: no camera, nothing is captured in this cycle.
CamNoCamera ==
    /\ ProcessAlive
    /\ cam_pc = "no_camera"
    /\ cam_out' = cam_out + 1
    /\ cam_pc' = "wait"
    /\ UNCHANGED <<cam_stop, pc2, now_local, fix, rd, exif_dict, cam_exc>>
    /\ UNCHANGED <<photo, nphotos, ncycles, elapsed, prev_cycle>>
    /\ UNCHANGED <<envVars, gps, clock, mainVars, gpsVars>>
    /\ UNCHANGED <<regVars, histVars, exifVars, dmsVars>>

\* worker.py 288-290: _capture_picamera2() takes e ticks and returns the frame
\* or raises; an exception leaves the loop for the finally block.
CamCapture(e, ok) ==
    /\ ProcessAlive
    /\ cam_pc = "capture"
    /\ clock + e <= MaxClock
    /\ clock' = clock + e
    /\ elapsed' = elapsed + e
    /\ exif_dict' = None
    /\ cam_pc' = IF ok THEN "exif_lat" ELSE "finally"
    /\ cam_exc' = IF ok THEN cam_exc ELSE "capture"
    /\ UNCHANGED <<cam_stop, pc2, now_local, fix, rd>>
    /\ UNCHANGED <<photo, nphotos, ncycles, prev_cycle, cam_out>>
    /\ UNCHANGED <<envVars, gps, mainVars, gpsVars>>
    /\ UNCHANGED <<regVars, histVars, exifVars, dmsVars>>

\* worker.py 132-133 inside make_exif: lat = gps.latitude.
CamExifLat ==
    /\ ProcessAlive
    /\ cam_pc = "exif_lat"
    /\ rd' = IF GPS_AVAILABLE THEN [rd EXCEPT !.lat = gps.latitude] ELSE rd
    /\ cam_pc' = IF GPS_AVAILABLE THEN "exif_lon" ELSE "exif_build"
    /\ UNCHANGED <<cam_stop, pc2, now_local, fix, exif_dict, cam_exc>>
    /\ UNCHANGED <<envVars, gps, clock, mainVars, gpsVars, outVars>>
    /\ UNCHANGED <<regVars, histVars, exifVars, dmsVars>>

\* worker.py 134: lon = gps.longitude.
CamExifLon ==
    /\ ProcessAlive
    /\ cam_pc = "exif_lon"
    /\ rd' = [rd EXCEPT !.lon = gps.longitude]
    /\ cam_pc' = "exif_alt"
    /\ UNCHANGED <<cam_stop, pc2, now_local, fix, exif_dict, cam_exc>>
    /\ UNCHANGED <<envVars, gps, clock, mainVars, gpsVars, outVars>>
    /\ UNCHANGED <<regVars, histVars, exifVars, dmsVars>>

\* worker.py 135: alt = gps.altitude_m.
CamExifAlt ==
    /\ ProcessAlive
    /\ cam_pc = "exif_alt"
    /\ rd' = [rd EXCEPT !.alt = gps.altitude_m]
    /\ cam_pc' = "exif_build"
    /\ UNCHANGED <<cam_stop, pc2, now_local, fix, exif_dict, cam_exc>>
    /\ UNCHANGED <<envVars, gps, clock, mainVars, gpsVars, outVars>>
    /\ UNCHANGED <<regVars, histVars, exifVars, dmsVars>>

\* make_exif's locals lat, lon and alt outside a call of it.
NoLocals == [lat |-> None, lon |-> None, alt |-> None]

\* worker.py 292 with 137-154: the rest of make_exif, which returns the tags or
\* raises.
CamExifBuild ==
    /\ ProcessAlive
    /\ cam_pc = "exif_build"
    /\ \E r \in { make_exif(now_local, fix, GPS_AVAILABLE, rd.lat, rd.lon,
                           rd.alt, gps.timestamp_utc, clock) } :
           /\ exif_dict' = IF r.raised THEN exif_dict ELSE Some(r.exif)
           /\ cam_exc' = IF r.raised THEN "make_exif" ELSE cam_exc
           /\ cam_pc' = IF r.raised THEN "finally" ELSE "save"
    /\ rd' = NoLocals
    /\ UNCHANGED <<cam_stop, pc2, now_local, fix>>
    /\ UNCHANGED <<envVars, gps, clock, mainVars, gpsVars, outVars>>
    /\ UNCHANGED <<regVars, histVars, exifVars, dmsVars>>

\* worker.py 294-306: piexif.dump, Image.open and im.save write the file or
\* raise.
CamSave(ok) ==
    /\ ProcessAlive
    /\ cam_pc = "save"
    /\ photo' = IF ok
                THEN Some([fname |-> FileName(now_local), exif |-> Val(exif_dict),
                           fix |-> fix])
                ELSE photo
    /\ nphotos' = IF ok THEN nphotos + 1 ELSE nphotos
    /\ cam_exc' = IF ok THEN cam_exc ELSE "save"
    /\ cam_pc' = IF ok THEN "wait" ELSE "finally"
    /\ UNCHANGED <<cam_stop, pc2, now_local, fix, rd, exif_dict>>
    /\ UNCHANGED <<ncycles, elapsed, prev_cycle, cam_out>>
    /\ UNCHANGED <<envVars, gps, clock, mainVars, gpsVars>>
    /\ UNCHANGED <<regVars, histVars, exifVars, dmsVars>>

\* A wait that sleeps the interval whatever the event is, as
\* time.sleep(self.interval) would.
CamWaitSleep ==
    /\ ProcessAlive
    /\ cam_pc = "wait"
    /\ clock + interval <= MaxClock
    /\ clock' = clock + interval
    /\ prev_cycle' = Some([n |-> ncycles, start |-> now_local,
                           elapsed |-> elapsed, slept |-> interval])
    /\ cam_pc' = "top"
    /\ UNCHANGED <<cam_stop, pc2, now_local, fix, rd, exif_dict, cam_exc>>
    /\ UNCHANGED <<photo, nphotos, ncycles, elapsed, cam_out>>
    /\ UNCHANGED <<envVars, gps, mainVars, gpsVars>>
    /\ UNCHANGED <<regVars, histVars, exifVars, dmsVars>>

\* worker.py 311: self._stop.wait(self.interval) times out, the event not set.
CamWaitTimeout ==
    /\ ProcessAlive
    /\ cam_pc = "wait"
    /\ ~cam_stop
    /\ clock + interval <= MaxClock
    /\ clock' = clock + interval
    /\ prev_cycle' = Some([n |-> ncycles, start |-> now_local,
                           elapsed |-> elapsed, slept |-> interval])
    /\ cam_pc' = "top"
    /\ UNCHANGED <<cam_stop, pc2, now_local, fix, rd, exif_dict, cam_exc>>
    /\ UNCHANGED <<photo, nphotos, ncycles, elapsed, cam_out>>
    /\ UNCHANGED <<envVars, gps, mainVars, gpsVars>>
    /\ UNCHANGED <<regVars, histVars, exifVars, dmsVars>>

\* worker.py 311: the wait ends at once because the event is set.
CamWaitStopped ==
    /\ ProcessAlive
    /\ cam_pc = "wait"
    /\ cam_stop
    /\ cam_pc' = "top"
    /\ UNCHANGED <<cam_stop, pc2, now_local, fix, rd, exif_dict, cam_exc>>
    /\ UNCHANGED <<envVars, gps, clock, mainVars, gpsVars, outVars>>
    /\ UNCHANGED <<regVars, histVars, exifVars, dmsVars>>

\* Whether close() has been called on a handle in state p, and returned or
\* raised.
CloseCalled(p) == p \in {"closed", "close_failed"}

\* A finally block without the try/except around close: what close raises
\* leaves run.
CamFinallyPropagating(close_ok) ==
    /\ ProcessAlive
    /\ cam_pc = "finally"
    /\ pc2' = IF pc2 = "open" THEN (IF close_ok THEN "closed" ELSE "close_failed")
              ELSE pc2
    /\ LET fails == pc2 = "open" /\ ~close_ok
       IN /\ cam_exc' = IF fails THEN "close" ELSE cam_exc
          /\ cam_pc' = IF cam_exc = "" /\ ~fails THEN "done" ELSE "crashed"
    /\ UNCHANGED <<cam_stop, now_local, fix, rd, exif_dict>>
    /\ UNCHANGED <<envVars, gps, clock, mainVars, gpsVars, outVars>>
    /\ UNCHANGED <<regVars, histVars, exifVars, dmsVars>>

\* worker.py 312-317: the finally block closes the camera, swallowing what
\* close raises; an exception of the loop then leaves run.
CamFinally(close_ok) ==
    /\ ProcessAlive
    /\ cam_pc = "finally"
    /\ pc2' = IF pc2 = "open" THEN (IF close_ok THEN "closed" ELSE "close_failed")
              ELSE pc2
    /\ cam_pc' = IF cam_exc = "" THEN "done" ELSE "crashed"
    /\ UNCHANGED <<cam_stop, now_local, fix, rd, exif_dict, cam_exc>>
    /\ UNCHANGED <<envVars, gps, clock, mainVars, gpsVars, outVars>>
    /\ UNCHANGED <<regVars, histVars, exifVars, dmsVars>>

\* ------------------------------------------------------------------- main()
\* worker.py 322-324.
MainCheckCamera ==
    /\ main_pc = "start"
    /\ main_pc' = IF PICAMERA2 THEN "create" ELSE "returned"
    /\ main_out' = IF PICAMERA2 THEN main_out
                   ELSE Append(main_out, "Camera not found..")
    /\ UNCHANGED main_exc
    /\ UNCHANGED <<envVars, gps, clock, gpsVars, camVars, outVars>>
    /\ UNCHANGED <<regVars, histVars, exifVars, dmsVars>>

\* worker.py 329-330: the line main prints when it creates no GPSPoller.
GpsNotice == IF GPS_AVAILABLE THEN <<>> ELSE <<"GPS unavailable.">>

\* worker.py 252 and 254: the lines CameraPoller.__init__ prints.
CameraPollerNotices == <<"Polling the camera at .. seconds", "Photo resolution: ..">>

\* worker.py 326-332: the SharedState and the two thread objects.  The
\* arguments of CameraPoller read camera_mode.get, which raises for a
\* camera_mode of None; CameraPoller.__init__ (259-266) opens the camera and
\* keeps _pc2 = None when that fails.
MainCreate(opened) ==
    /\ main_pc = "create"
    /\ IF IsNone(camera_mode)
       THEN /\ main_pc' = "crashed"
            /\ main_exc' = "camera_mode"
            /\ main_out' = main_out \o GpsNotice
            /\ pc2' = pc2
       ELSE /\ main_pc' = "start_gps"
            /\ main_exc' = main_exc
            /\ main_out' = main_out \o GpsNotice \o CameraPollerNotices
            /\ pc2' = IF opened THEN "open" ELSE "none"
    /\ UNCHANGED <<cam_pc, cam_stop, now_local, fix, rd, exif_dict, cam_exc>>
    /\ UNCHANGED <<envVars, gps, clock, gpsVars, outVars>>
    /\ UNCHANGED <<regVars, histVars, exifVars, dmsVars>>

\* worker.py 334-335.
MainStartGps ==
    /\ main_pc = "start_gps"
    /\ main_pc' = "start_cam"
    /\ gps_pc' = IF GPS_AVAILABLE THEN "top" ELSE gps_pc
    /\ UNCHANGED <<main_out, main_exc, gps_stop, gps_exc>>
    /\ UNCHANGED <<envVars, gps, clock, camVars, outVars>>
    /\ UNCHANGED <<regVars, histVars, exifVars, dmsVars>>

\* worker.py 337.
MainStartCam ==
    /\ main_pc = "start_cam"
    /\ main_pc' = "sleeping"
    /\ cam_pc' = "top"
    /\ UNCHANGED <<main_out, main_exc>>
    /\ UNCHANGED <<cam_stop, pc2, now_local, fix, rd, exif_dict, cam_exc>>
    /\ UNCHANGED <<envVars, gps, clock, gpsVars, outVars>>
    /\ UNCHANGED <<regVars, histVars, exifVars, dmsVars>>

\* worker.py 339-343: KeyboardInterrupt ends the sleep loop.
MainInterrupt ==
    /\ main_pc = "sleeping"
    /\ main_pc' = "stop_gps"
    /\ UNCHANGED <<main_out, main_exc>>
    /\ UNCHANGED <<envVars, gps, clock, gpsVars, camVars, outVars>>
    /\ UNCHANGED <<regVars, histVars, exifVars, dmsVars>>

\* worker.py 345-346: gps_thread.stop().
MainStopGps ==
    /\ main_pc = "stop_gps"
    /\ main_pc' = IF GPS_AVAILABLE THEN "join_gps" ELSE "stop_cam"
    /\ gps_stop' = IF GPS_AVAILABLE THEN TRUE ELSE gps_stop
    /\ main_out' = IF GPS_AVAILABLE THEN Append(main_out, "Stopping GPS thread..")
                   ELSE main_out
    /\ UNCHANGED <<main_exc, gps_pc, gps_exc>>
    /\ UNCHANGED <<envVars, gps, clock, camVars, outVars>>
    /\ UNCHANGED <<regVars, histVars, exifVars, dmsVars>>

\* worker.py 347: gps_thread.join(timeout=2) returns, the thread ended or not.
MainJoinGps ==
    /\ main_pc = "join_gps"
    /\ main_pc' = "stop_cam"
    /\ UNCHANGED <<main_out, main_exc>>
    /\ UNCHANGED <<envVars, gps, clock, gpsVars, camVars, outVars>>
    /\ UNCHANGED <<regVars, histVars, exifVars, dmsVars>>

\* worker.py 349: cam_thread.stop().
MainStopCam ==
    /\ main_pc = "stop_cam"
    /\ main_pc' = "join_cam"
    /\ cam_stop' = TRUE
    /\ UNCHANGED <<main_out, main_exc>>
    /\ UNCHANGED <<cam_pc, pc2, now_local, fix, rd, exif_dict, cam_exc>>
    /\ UNCHANGED <<envVars, gps, clock, gpsVars, outVars>>
    /\ UNCHANGED <<regVars, histVars, exifVars, dmsVars>>

\* Whether run of CameraPoller has ended, by returning or by raising.
CamEnded == cam_pc \in {"done", "crashed"}

\* A main that closes the camera handle itself once its join has ended.
MainJoinCamThenClose(has_stop_method) ==
    /\ main_pc = "join_cam"
    /\ main_pc' = "returned"
    /\ pc2' = IF pc2 = "open" THEN "closed" ELSE pc2
    /\ UNCHANGED <<main_out, main_exc>>
    /\ UNCHANGED <<cam_pc, cam_stop, now_local, fix, rd, exif_dict, cam_exc>>
    /\ UNCHANGED <<envVars, gps, clock, gpsVars, outVars>>
    /\ UNCHANGED <<regVars, histVars, exifVars, dmsVars>>

\* worker.py 350 with 256: cam_thread.join(timeout=2) ends, the thread ended
\* or not, and main ends with it.  CameraPoller.__init__ binds self._stop to
\* an Event, the name of a private method of threading.Thread.  Where join
\* calls that method for a thread that has ended (CPython up to 3.12) the
\* call raises TypeError out of join and main; where join does not use it
\* (CPython 3.13 and later) join returns.  has_stop_method tells the two
\* builds apart.  A join that times out returns in both.
MainJoinCam(has_stop_method) ==
    /\ main_pc = "join_cam"
    /\ LET fails == CamEnded /\ has_stop_method
       IN /\ main_pc' = IF fails THEN "crashed" ELSE "returned"
          /\ main_exc' = IF fails THEN "join" ELSE main_exc
    /\ UNCHANGED main_out
    /\ UNCHANGED <<envVars, gps, clock, gpsVars, camVars, outVars>>
    /\ UNCHANGED <<regVars, histVars, exifVars, dmsVars>>

\* ------------------------------------------------------- the worker process
\* The values of the variables of a part that a specification does not run.
PipeIdle ==
    /\ GPS_AVAILABLE = FALSE
    /\ PICAMERA2 = FALSE
    /\ camera_mode = None
    /\ interval = 1
    /\ gps = NoReading
    /\ clock = 0
    /\ main_pc = "start"
    /\ main_out = <<>>
    /\ main_exc = ""
    /\ gps_pc = "idle"
    /\ gps_stop = FALSE
    /\ gps_exc = ""
    /\ cam_pc = "idle"
    /\ cam_stop = FALSE
    /\ pc2 = "none"
    /\ now_local = 0
    /\ fix = None
    /\ rd = [lat |-> None, lon |-> None, alt |-> None]
    /\ exif_dict = None
    /\ cam_exc = ""
    /\ photo = None
    /\ nphotos = 0
    /\ ncycles = 0
    /\ elapsed = 0
    /\ prev_cycle = None
    /\ cam_out = 0

ExifIdle ==
    /\ ex_in = None
    /\ ex_out = None

DmsIdle ==
    /\ dms_in = None
    /\ dms_out = None

CameraModes == {None, Some([width |-> 2304, height |-> 1296])}

\* The state when main() is entered: the module body has run (worker.py 7-80).
Init ==
    /\ RegIdle
    /\ ExifIdle
    /\ DmsIdle
    /\ GPS_AVAILABLE \in BOOLEAN
    /\ PICAMERA2 \in BOOLEAN
    /\ camera_mode \in CameraModes
    /\ interval \in 1..MaxInterval
    /\ gps = NoReading
    /\ clock = 0
    /\ main_pc = "start"
    /\ main_out = <<>>
    /\ main_exc = ""
    /\ gps_pc = "idle"
    /\ gps_stop = FALSE
    /\ gps_exc = ""
    /\ cam_pc = "idle"
    /\ cam_stop = FALSE
    /\ pc2 = "none"
    /\ now_local = 0
    /\ fix = None
    /\ rd = [lat |-> None, lon |-> None, alt |-> None]
    /\ exif_dict = None
    /\ cam_exc = ""
    /\ photo = None
    /\ nphotos = 0
    /\ ncycles = 0
    /\ elapsed = 0
    /\ prev_cycle = None
    /\ cam_out = 0

Next ==
    \/ MainCheckCamera
    \/ \E opened \in BOOLEAN : MainCreate(opened)
    \/ MainStartGps
    \/ MainStartCam
    \/ MainInterrupt
    \/ MainStopGps
    \/ MainJoinGps
    \/ MainStopCam
    \/ \E has_stop_method \in BOOLEAN : MainJoinCam(has_stop_method)
    \/ GpsCheckStop
    \/ \E r \in Readings \cup {gps}, ok \in BOOLEAN : GpsUpdate(r, ok)
    \/ GpsReport
    \/ GpsSleep
    \/ CamCheckStop
    \/ CamGetFixEnter
    \/ CamGetFixReturn
    \/ CamNoCamera
    \/ \E e \in 0..MaxElapsed, ok \in BOOLEAN : CamCapture(e, ok)
    \/ CamExifLat
    \/ CamExifLon
    \/ CamExifAlt
    \/ CamExifBuild
    \/ \E ok \in BOOLEAN : CamSave(ok)
    \/ CamWaitTimeout
    \/ CamWaitStopped
    \/ \E close_ok \in BOOLEAN : CamFinally(close_ok)

Spec == Init /\ [][Next]_vars

\* The two loop threads are scheduled fairly while the process lives, and a
\* receiver call or a camera capture that is in flight returns.
LoopFairness ==
    /\ WF_vars(GpsCheckStop)
    /\ WF_vars(\E r \in Readings \cup {gps} : GpsUpdate(r, TRUE))
    /\ WF_vars(GpsReport)
    /\ WF_vars(GpsSleep)
    /\ WF_vars(CamCheckStop)
    /\ WF_vars(CamGetFixEnter)
    /\ WF_vars(CamGetFixReturn)
    /\ WF_vars(CamNoCamera)
    /\ WF_vars(\E e \in 0..MaxElapsed : CamCapture(e, TRUE))
    /\ WF_vars(CamExifLat)
    /\ WF_vars(CamExifLon)
    /\ WF_vars(CamExifAlt)
    /\ WF_vars(CamExifBuild)
    /\ WF_vars(\E ok \in BOOLEAN : CamSave(ok))
    /\ WF_vars(CamWaitTimeout)
    /\ WF_vars(CamWaitStopped)
    /\ WF_vars(\E close_ok \in BOOLEAN : CamFinally(close_ok))

SpecFair == Init /\ [][Next]_vars /\ LoopFairness

\* ------------------------------------------- the registry with its callers
RegInit ==
    /\ RegIdle
    /\ PipeIdle
    /\ ExifIdle
    /\ DmsIdle

SpecReg == RegInit /\ [][RegNext]_vars

\* --------------------------------------------- a registry that holds a Fix
\* What _latest_fix can be bound to when it is not None: a Fix object with a
\* fix_quality attribute, or the plain dict that line 169 stores.
HeldFixes == Fixes \cup { DictOf(f) : f \in Fixes }

\* The callers of the registry idle, the registry holding one of HeldFixes.
HeldInit ==
    /\ PipeIdle
    /\ ExifIdle
    /\ DmsIdle
    /\ lock = Free
    /\ latest_fix \in { Some(h) : h \in HeldFixes }
    /\ rpc = [t \in RegThreads |-> "idle"]
    /\ arg = [t \in RegThreads |-> None]
    /\ ret = [t \in RegThreads |-> None]
    /\ raised = [t \in RegThreads |-> FALSE]
    /\ reg_out = 0
    /\ npublished = 0
    /\ best = Some(DictOf(Val(latest_fix)))
    /\ ncalls = [t \in RegThreads |-> 0]
    /\ snapSeen = None
    /\ snapN = 0
    /\ snapQuiet = TRUE
    /\ snapDone = FALSE

SpecRegHeld == HeldInit /\ [][RegNext]_vars

\* ------------------------------------------------- make_exif called on its own
\* A Fix as a caller of make_exif may hold one: the fields of one reading.
FixOf(lat, lon, alt, ts) ==
    [latitude |-> lat, longitude |-> lon, altitude_m |-> alt, timestamp_utc |-> ts]

\* The second argument of make_exif: None or a Fix.
ExifFixes ==
    { None,
      Some(FixOf(FloatOfHalves(3), FloatOfHalves(1), Some(FloatOfHalves(5)),
                 Some(StructTime(0, 1, 2, 3)))),
      Some(FixOf(FloatOfHalves(-3), FloatOfHalves(-1), None, None)) }

\* What the receiver object can hold while make_exif runs.
ExifLatitudes == { None, Some(FloatOfHalves(3)), Some(FloatOfHalves(-3)) }
ExifLongitudes == { None, Some(FloatOfHalves(1)), Some(FloatOfHalves(-1)) }
ExifAltitudes == { None, Some(FloatOfHalves(5)), Some(FloatOfHalves(-5)) }
ExifTimestamps == { None, Some(StructTime(0, 1, 2, 3)) }

\* A call of make_exif at time TicksPerDay + 1, the day after the timestamps.
ExifInputs ==
    [now_local : {TicksPerDay + 1}, fix : ExifFixes, avail : BOOLEAN,
     lat : ExifLatitudes, lon : ExifLongitudes, alt : ExifAltitudes,
     ts : ExifTimestamps, utcnow : {TicksPerDay + 1}]

ExifInit ==
    /\ RegIdle
    /\ PipeIdle
    /\ DmsIdle
    /\ ex_in \in { Some(i) : i \in ExifInputs }
    /\ ex_out = None

\* worker.py 110-154: make_exif(now_local, fix) runs and returns or raises.
ExifCall ==
    /\ IsNone(ex_out)
    /\ ex_out' = Some(make_exif(Val(ex_in).now_local, Val(ex_in).fix,
                                Val(ex_in).avail, Val(ex_in).lat, Val(ex_in).lon,
                                Val(ex_in).alt, Val(ex_in).ts, Val(ex_in).utcnow))
    /\ UNCHANGED <<ex_in, regVars, histVars, pipeVars, dmsVars>>

ExifNext == ExifCall

SpecExif == ExifInit /\ [][ExifNext]_vars

\* ----------------------------------------------- _deg_to_dms called on its own
\* The decimal degrees tried: the twentieths from 0 to MaxTwentieths / 20 and
\* three angles near the ends of the ranges of latitude and longitude.
MaxTwentieths == 60

FNeg(x) == [x EXCEPT !.neg = ~x.neg]

DmsInputs ==
    { FloatOfRatio(n, 20) : n \in 0..MaxTwentieths }
    \cup { FloatOfRatio(33865, 1000), FloatOfRatio(89999, 1000),
           FloatOfRatio(17915, 100) }

DmsInit ==
    /\ RegIdle
    /\ PipeIdle
    /\ ExifIdle
    /\ dms_in \in { Some(v) : v \in DmsInputs }
    /\ dms_out = None

\* worker.py 87-93: _deg_to_dms(dd) and _deg_to_dms(-dd) run and return.
Convert ==
    /\ IsNone(dms_out)
    /\ dms_out' = Some([sign \in {"pos", "neg"} |->
                           _deg_to_dms(IF sign = "pos" THEN Val(dms_in)
                                       ELSE FNeg(Val(dms_in)))])
    /\ UNCHANGED <<dms_in, regVars, histVars, pipeVars, exifVars>>

DmsNext == Convert

SpecDms == DmsInit /\ [][DmsNext]_vars

\* ===================================================================== claims
\* ------------------------------------------------------ the registry (SpecReg)
\* How many set_fix calls have been issued, and how many the callers issue in
\* all.
PublishCalls == ncalls["p1"] + ncalls["p2"]
AllPublishes == Cardinality(Publishers) * MaxPublishes

\* C1: on a freshly created registry no set_fix call raises, and a get_fix
\* that follows a sequence of set_fix calls (none of them in progress when it
\* began, none issued since) returns the published Fix of maximal quality,
\* the most recently published one among those of maximal quality.
C1_PublishThenSnapshot ==
    /\ \A t \in Publishers : ~raised[t]
    /\ (snapDone /\ snapQuiet /\ PublishCalls = snapN)
           => ret[Snapshotter] = snapSeen

\* A set_fix call on the fresh registry has returned.
C1_Published == npublished >= 1

\* C2: while set_fix has never been called, every get_fix returns None, never
\* a default or placeholder Fix, however many of them are taken.
C2_SnapshotBeforePublishAbsent ==
    PublishCalls = 0 =>
        /\ IsNone(latest_fix)
        /\ \A t \in RegThreads : IsNone(ret[t])

\* All the snapshots have been taken and no set_fix was called.
C2_AllSnapshotsTaken ==
    /\ PublishCalls = 0
    /\ snapDone
    /\ ncalls[Snapshotter] = MaxSnapshots

\* C3: with two threads calling set_fix and a third calling get_fix, no call
\* raises, a get_fix takes into account every set_fix that completed before
\* it began, and the get_fix taken after all set_fix calls have completed
\* returns the Fix of maximal quality among all of them.
C3_ConcurrentPublishSnapshot ==
    /\ \A t \in RegThreads : ~raised[t]
    /\ (snapDone /\ ~IsNone(snapSeen)) =>
           /\ ~IsNone(ret[Snapshotter])
           /\ Val(ret[Snapshotter]).fix_quality >= Val(snapSeen).fix_quality
    /\ (snapDone /\ snapN = AllPublishes) => ret[Snapshotter] = best

\* Both threads have completed their set_fix calls and a get_fix that began
\* afterwards has returned.
C3_SnapshotAfterAll == snapDone /\ snapN = AllPublishes

\* ------------------------------------------------- the worker process (Spec)
\* Whether the positioning group g holds the latitude, longitude and altitude
\* of the one reading r.
FromReading(g, r) ==
    /\ ~IsNone(r.latitude)
    /\ ~IsNone(r.longitude)
    /\ [name \in {"GPSLatitude", "GPSLongitude"} |-> g[name]]
           = [name \in {"GPSLatitude", "GPSLongitude"} |->
                 DmsOfReadingCoords[IF name = "GPSLatitude" THEN Val(r.latitude)
                                    ELSE Val(r.longitude)]]
    /\ g["GPSLatitudeRef"] = (IF FGeZero(Val(r.latitude)) THEN "N" ELSE "S")
    /\ g["GPSLongitudeRef"] = (IF FGeZero(Val(r.longitude)) THEN "E" ELSE "W")
    /\ HasTag(g, "GPSAltitude") = ~IsNone(r.altitude_m)
    /\ HasTag(g, "GPSAltitude") =>
           g["GPSAltitudeRef"] = (IF FGeZero(Val(r.altitude_m)) THEN 0 ELSE 1)

\* C4: a written photo with a positioning group was tagged from the Fix
\* snapshot its cycle read from the registry, so that snapshot is present, and
\* its latitude, longitude and altitude are those of one receiver reading,
\* never a mix of two.
C4_PhotoPositionFromSnapshot ==
    (~IsNone(photo) /\ Val(photo).exif.GPS # EmptyGroup) =>
        /\ ~IsNone(Val(photo).fix)
        /\ \E r \in Readings : FromReading(Val(photo).exif.GPS, r)

\* A photo whose latitude is of one reading and whose longitude is of another.
C4_MixedPhoto ==
    /\ ~IsNone(photo)
    /\ Val(photo).exif.GPS # EmptyGroup
    /\ \A r \in Readings : ~FromReading(Val(photo).exif.GPS, r)

\* C9: after a cycle that took elapsed e the loop sleeps max(0, interval - e),
\* so that when e < interval the next cycle starts exactly interval after the
\* start of this one.
C9_SleepsRemainingInterval ==
    ~IsNone(prev_cycle) =>
        /\ Val(prev_cycle).slept
               = (IF interval > Val(prev_cycle).elapsed
                  THEN interval - Val(prev_cycle).elapsed ELSE 0)
        /\ (ncycles = Val(prev_cycle).n + 1 /\ Val(prev_cycle).elapsed < interval)
               => now_local - Val(prev_cycle).start = interval

\* A cycle that took time, but less than the interval, is followed by the next.
C9_NextCycleBegun ==
    /\ ~IsNone(prev_cycle)
    /\ Val(prev_cycle).elapsed > 0
    /\ Val(prev_cycle).elapsed < interval
    /\ ncycles = Val(prev_cycle).n + 1

\* C10: a failure of the capture, of the tag build or of the write does not
\* end the capture loop: run does not end with an exception, it leaves the
\* loop only after stop() was requested, and the camera stays open until then.
C10_FailureKeepsLoopRunning ==
    /\ cam_pc # "crashed"
    /\ cam_pc \in {"finally", "done"} => cam_stop
    /\ CloseCalled(pc2) => cam_stop

\* A cycle has failed though nobody asked the loop to stop.
C10_CycleFailed == cam_exc # "" /\ ~cam_stop

\* ------------------------------------------------------- make_exif (SpecExif)
\* C5: make_exif called with an absent fix returns, without raising, a tag
\* whose positioning group is empty and whose image-info group is not,
\* whatever the receiver holds; tags carry a positioning group exactly when
\* the fix passed in was present.
C5_AbsentFixNoPositioning ==
    ~IsNone(ex_out) =>
        /\ IsNone(Val(ex_in).fix) => ~Val(ex_out).raised
        /\ ~Val(ex_out).raised =>
               /\ Val(ex_out).exif.zeroth # EmptyGroup
               /\ (Val(ex_out).exif.GPS # EmptyGroup) = ~IsNone(Val(ex_in).fix)

\* make_exif has been called with an absent fix while the receiver held a
\* position.
C5_AbsentFixCalled ==
    /\ ~IsNone(ex_out)
    /\ IsNone(Val(ex_in).fix)
    /\ Val(ex_in).avail
    /\ ~IsNone(Val(ex_in).lat)

\* The time-of-fix triple of a struct_time: whole hours, minutes and seconds.
TimeOfFix(ts) == <<<<ts.tm_hour, 1>>, <<ts.tm_min, 1>>, <<ts.tm_sec, 1>>>>

\* C6: building the tags of a Fix never raises when the Fix has no timestamp,
\* and in a positioning group the date and the time of fix are those of the
\* Fix's own timestamp, both absent when it has none; the wall clock is never
\* written there.
C6_PositioningTimeFromFix ==
    (~IsNone(ex_out) /\ ~IsNone(Val(ex_in).fix)) =>
        /\ IsNone(Val(Val(ex_in).fix).timestamp_utc) => ~Val(ex_out).raised
        /\ (~Val(ex_out).raised /\ Val(ex_out).exif.GPS # EmptyGroup) =>
               IF IsNone(Val(Val(ex_in).fix).timestamp_utc)
               THEN /\ ~HasTag(Val(ex_out).exif.GPS, "GPSDateStamp")
                    /\ ~HasTag(Val(ex_out).exif.GPS, "GPSTimeStamp")
               ELSE /\ HasTag(Val(ex_out).exif.GPS, "GPSDateStamp")
                    /\ HasTag(Val(ex_out).exif.GPS, "GPSTimeStamp")
                    /\ Val(ex_out).exif.GPS["GPSDateStamp"]
                           = <<Val(Val(Val(ex_in).fix).timestamp_utc).tm_yday>>
                    /\ Val(ex_out).exif.GPS["GPSTimeStamp"]
                           = TimeOfFix(Val(Val(Val(ex_in).fix).timestamp_utc))

\* make_exif has built a positioning group for a Fix that has a timestamp.
C6_GroupBuiltForFix ==
    /\ ~IsNone(ex_out)
    /\ ~IsNone(Val(ex_in).fix)
    /\ ~IsNone(Val(Val(ex_in).fix).timestamp_utc)
    /\ ~Val(ex_out).raised
    /\ Val(ex_out).exif.GPS # EmptyGroup

\* Whether the positioning group g encodes the coordinates of the Fix f.
EncodesFix(g, f) ==
    /\ \A name \in {"GPSLatitudeRef", "GPSLatitude", "GPSLongitudeRef",
                     "GPSLongitude"} : HasTag(g, name)
    /\ g["GPSLatitudeRef"] = (IF FGeZero(f.latitude) THEN "N" ELSE "S")
    /\ g["GPSLongitudeRef"] = (IF FGeZero(f.longitude) THEN "E" ELSE "W")
    /\ [name \in {"GPSLatitude", "GPSLongitude"} |-> g[name]]
           = [name \in {"GPSLatitude", "GPSLongitude"} |->
                 DmsOfReadingCoords[IF name = "GPSLatitude" THEN f.latitude
                                    ELSE f.longitude]]
    /\ IF IsNone(f.altitude_m)
       THEN ~HasTag(g, "GPSAltitudeRef") /\ ~HasTag(g, "GPSAltitude")
       ELSE /\ HasTag(g, "GPSAltitudeRef")
            /\ HasTag(g, "GPSAltitude")
            /\ g["GPSAltitudeRef"] = (IF FGeZero(Val(f.altitude_m)) THEN 0 ELSE 1)
            /\ g["GPSAltitude"] = _rat(FAbs(Val(f.altitude_m)), 1000)

\* C7: for a Fix with coordinates the positioning group has reference N for
\* a latitude >= 0 and S otherwise, E for a longitude >= 0 and W otherwise,
\* 0 for an altitude >= 0 and 1 otherwise, and the magnitudes of the absolute
\* values; without an altitude both altitude tags are left out and latitude
\* and longitude are still written.
C7_ReferencesFollowFixSigns ==
    (~IsNone(ex_out) /\ ~IsNone(Val(ex_in).fix)) =>
        /\ ~Val(ex_out).raised
        /\ EncodesFix(Val(ex_out).exif.GPS, Val(Val(ex_in).fix))

\* make_exif has built a positioning group for a Fix of southern latitude
\* and without altitude.
C7_SouthernFixBuilt ==
    /\ ~IsNone(ex_out)
    /\ ~IsNone(Val(ex_in).fix)
    /\ ~FGeZero(Val(Val(ex_in).fix).latitude)
    /\ IsNone(Val(Val(ex_in).fix).altitude_m)
    /\ ~Val(ex_out).raised
    /\ Val(ex_out).exif.GPS # EmptyGroup

\* ----------------------------------------------------- _deg_to_dms (SpecDms)
\* Whether degrees D, minutes M and seconds sn/sd add up to the magnitude mag
\* (in units of 2^-FracBits degrees) within 1/DefaultMaxDen of a second:
\* |3600 mag - (3600 D + 60 M + sn/sd)| <= 1/DefaultMaxDen, both sides scaled
\* by sd, 2^FracBits and DefaultMaxDen.
AddsUpTo(mag, D, M, sn, sd) ==
    BCmp(BMul(BAbsDiff(BMul(BMulSmall(mag, 3600), BFromInt(sd)),
                       BMul(BAdd(BMul(BFromInt(3600 * D + 60 * M), BFromInt(sd)),
                                 BFromInt(sn)), One)),
              BFromInt(DefaultMaxDen)),
         BMul(One, BFromInt(sd))) <= 0

\* Whether the triple t is degrees, minutes and seconds of the float v: three
\* rationals of positive denominator, the degrees the whole part of |v|, the
\* minutes whole and in 0..59, the seconds not negative, the three adding up
\* to |v|, and all zero for v = 0.
IsDmsOf(t, v) ==
    /\ \A i \in 1..3 : t[i][2] > 0
    /\ t[1][2] = 1
    /\ FInt(FAbs(v)) = t[1][1]
    /\ t[2][2] = 1
    /\ t[2][1] \in 0..59
    /\ t[3][1] >= 0
    /\ AddsUpTo(v.mag, t[1][1], t[2][1], t[3][1], t[3][2])
    /\ v.mag = <<>> => t = <<<<0, 1>>, <<0, 1>>, <<0, 1>>>>

\* C8: _deg_to_dms(v) is three rationals of positive denominator, the degrees
\* the whole part of |v|, the minutes whole and in 0..59, the seconds in
\* [0, 60), adding up to |v| within the precision of the seconds; v = 0 gives
\* 0, 0, 0, and v and -v give the same triple.
C8_DegreesMinutesSeconds ==
    ~IsNone(dms_out) =>
        /\ IsDmsOf(Val(dms_out)["pos"], Val(dms_in))
        /\ Val(dms_out)["pos"][3][1] < 60 * Val(dms_out)["pos"][3][2]
        /\ Val(dms_out)["neg"] = Val(dms_out)["pos"]

\* A value was converted to whole minutes and 60 seconds.
C8_SixtySeconds ==
    /\ ~IsNone(dms_out)
    /\ Val(dms_out)["pos"][3] = <<60, 1>>

\* ---------------------------------------------------------------- GPSPoller
\* The positions of GPSPoller.run inside its loop: the loop is running.
GpsRunning == gps_pc \in {"top", "update", "report", "sleep"}

\* C11: a gps.update() that fails in some poll cycle publishes nothing and
\* leaves the position-sampling loop running: as long as stop() has not been
\* requested, the loop is inside its cycle after any number of such failures.
C11_UpdateFailureKeepsPolling ==
    (gps_exc = "update" /\ ~gps_stop) =>
        /\ GpsRunning
        /\ IsNone(arg[Gps])

\* C11: an update has failed and no stop was requested.
C11_UpdateFailed == gps_exc = "update" /\ ~gps_stop

\* ------------------------------------------------------------- CameraPoller
\* C12: a capture loop that was started without a camera handle prints its
\* report at most once, never waits out an interval, and stays in no state
\* other than its first pass and Stopped.
C12_NoCameraStopsAtOnce ==
    (cam_pc # "idle" /\ pc2 = "none") =>
        /\ cam_out <= 1
        /\ ncycles <= 1
        /\ IsNone(prev_cycle)
        /\ (cam_out = 1 => cam_pc \in {"finally", "done"})

\* C12: the loop runs without a camera handle and has reported it.
C12_NoCameraReported == pc2 = "none" /\ cam_out >= 1

\* C13: when the position-sampling loop reaches its sleep in a cycle in which
\* the receiver has a fix, it has called set_fix with a Fix of the receiver's
\* fields and that call has returned; set_fix is called in no other cycle.
C13_FixPublishedBeforeSleep ==
    gps_pc = "sleep" =>
        IF gps.has_fix
        THEN /\ ~IsNone(arg[Gps])
             /\ Val(arg[Gps]).fix_quality = gps.fix_quality
             /\ rpc[Gps] = "idle"
        ELSE rpc[Gps] = "idle"

\* C13: the loop is at its sleep in a cycle with a fix.
C13_SleepAfterFix == gps_pc = "sleep" /\ gps.has_fix

\* C14: once stop() was called on the position-sampling loop, no step of it
\* begins a receiver update and no step of it begins the interval sleep.
C14_NoUpdateNoSleepAfterStop ==
    [][gps_stop =>
          /\ (gps_pc # "update" => gps_pc' # "update")
          /\ (gps_pc # "sleep" => gps_pc' # "sleep")]_vars

\* C14: stop() arrived while the receiver call of a cycle was in flight, and
\* the call has returned.
C14_StoppedDuringUpdate == gps_stop /\ gps_pc = "report"

\* The positions of CameraPoller.run between the frame request and the write
\* of the file.
CamInFlight == cam_pc \in {"capture", "exif_lat", "exif_lon", "exif_alt",
                           "exif_build", "save"}

\* C15: once stop() was called on the capture loop, no step begins a capture
\* cycle; a step that ends the interval wait ends it without time passing and
\* leads to the loop test, which leaves the loop; and a step that leaves a
\* capture in flight for the exit is the step of an exception, not of the
\* stop.
C15_NoCycleAfterStop ==
    [][cam_stop =>
          /\ ncycles' = ncycles
          /\ ((cam_pc = "wait" /\ cam_pc' # "wait") =>
                  (cam_pc' = "top" /\ clock' = clock))
          /\ ((cam_pc = "top" /\ cam_pc' # "top") => cam_pc' = "finally")
          /\ ((CamInFlight /\ cam_pc' = "finally") => cam_exc' # "")]_vars

\* C15: a stop that arrived while a capture was in flight: the capture has
\* returned, the tags are built and the write is next.
C15_StoppedInFlight ==
    /\ cam_stop
    /\ cam_pc = "save"
    /\ ~IsNone(exif_dict)

\* --------------------------------------------------------------------- main
\* C16: with both loops started, main is at a join only when both loops have
\* been told to stop.
C16_BothStoppedBeforeAnyJoin ==
    (GPS_AVAILABLE /\ main_pc \in {"join_gps", "join_cam"}) =>
        (gps_stop /\ cam_stop)

\* C16: main is at its first join with both loops running.
C16_ShutdownBothRunning ==
    /\ main_pc = "join_gps"
    /\ GpsRunning
    /\ ~CamEnded

\* Whether main() has ended, by returning or by raising.
MainEnded == main_pc \in {"returned", "crashed"}

\* C17: after the termination signal main ends by returning, whatever the
\* loops do: it is past its two joins and has raised nothing on the way.
C17_MainReturnsAfterJoins ==
    (cam_stop /\ MainEnded) => (main_pc = "returned" /\ main_exc = "")

\* C17: main has ended after the signal while the capture loop, blocked in a
\* capture, has not observed its stop request.
C17_EndedWithLoopBlocked ==
    /\ cam_stop
    /\ MainEnded
    /\ cam_pc = "capture"

\* The lines main() prints at startup and when it stops the GPSPoller.
StartStopLines ==
    {"Camera not found..", "GPS unavailable.", "Polling the camera at .. seconds",
     "Photo resolution: ..", "Stopping GPS thread.."}

\* The lines of main() that are none of these: what it reports beyond them.
OtherLines == { i \in 1..Len(main_out) : main_out[i] \notin StartStopLines }

\* C18: when main has ended after its shutdown, it has reported a timeout if
\* a loop was still running when the join on it ended, and it has reported
\* none if every loop it joined had stopped.
C18_JoinTimeoutReported ==
    (cam_stop /\ MainEnded) =>
        /\ ((GpsRunning \/ ~CamEnded) => OtherLines # {})
        /\ ((~GpsRunning /\ CamEnded) => OtherLines = {})

\* C18: main has ended while the capture loop was still running.
C18_JoinTimedOut ==
    /\ cam_stop
    /\ MainEnded
    /\ ~CamEnded

\* C19: the step that closes the camera handle is taken from the exit of the
\* capture loop, with no capture in flight, and in every state in which the
\* handle is closed the loop has ended, so that no capture starts after it.
C19_CloseOnlyAfterLoop ==
    [][/\ ((~CloseCalled(pc2) /\ CloseCalled(pc2')) => cam_pc = "finally")
       /\ (CloseCalled(pc2') => CamEnded')]_vars

\* C19: the handle was closed after a stop request, main waiting in its join.
C19_ClosedDuringJoin ==
    /\ CloseCalled(pc2)
    /\ cam_stop
    /\ main_pc = "join_cam"

\* The tags of worker.py 117-130 are present in the groups of e.
HasImageInfo(e) ==
    /\ HasTag(e.zeroth, "DateTime")
    /\ HasTag(e.zeroth, "Make")
    /\ HasTag(e.zeroth, "Model")
    /\ HasTag(e.zeroth, "Software")
    /\ HasTag(e.Exif, "DateTimeOriginal")
    /\ HasTag(e.Exif, "DateTimeDigitized")

\* C20: without a receiver, and with a camera library and a configured
\* camera mode, no GPSPoller is started or stopped or joined, the capture
\* loop is started, a cycle that reaches its wait with a camera has written a
\* photo, every photo has the image-info tags and an empty GPS group, and
\* main raises nothing.
C20_NoReceiverMode ==
    (~GPS_AVAILABLE /\ PICAMERA2 /\ ~IsNone(camera_mode)) =>
        /\ gps_pc = "idle"
        /\ ~gps_stop
        /\ main_pc # "join_gps"
        /\ (main_pc \in {"sleeping", "stop_gps", "stop_cam", "join_cam"}
               => cam_pc # "idle")
        /\ ((cam_pc = "wait" /\ pc2 = "open") => ~IsNone(photo))
        /\ (~IsNone(photo) =>
               /\ HasImageInfo(Val(photo).exif)
               /\ Val(photo).exif.GPS = EmptyGroup)
        /\ main_exc = ""

\* C20: without a receiver a photo was written and main has ended its
\* shutdown.
C20_NoReceiverShutdown ==
    /\ ~GPS_AVAILABLE
    /\ nphotos >= 1
    /\ cam_stop
    /\ MainEnded

FrameCaptured == cam_pc \in {"exif_lat", "exif_lon", "exif_alt", "exif_build",
                             "save", "wait"}

\* C22: in a capture cycle the snapshot is taken after the frame capture has
\* returned, and the file is written last: the step in which get_fix returns
\* to the capture loop is taken with the frame captured, and the step that
\* writes the file is taken with the tags built.
C22_SnapshotAfterCapture ==
    [][/\ ((rpc[Camera] = "get_locked" /\ rpc'[Camera] = "idle") => FrameCaptured)
       /\ (nphotos' # nphotos => (cam_pc = "save" /\ ~IsNone(exif_dict)))]_vars

\* C22: the capture of a cycle is in flight.
C22_CaptureInFlight ==
    /\ cam_pc = "capture"
    /\ ncycles >= 1

\* --------------------------------------------------- the loops after a stop
\* Whether run of GPSPoller has ended, by returning or by raising.
GpsEnded == gps_pc \in {"done", "crashed"}

\* C24: with the loop threads scheduled fairly and their calls returning, a
\* loop on which stop() was requested eventually ends its run.
C24_StoppedLoopEnds ==
    /\ (gps_stop ~> GpsEnded)
    /\ (cam_stop ~> CamEnded)

\* C24: both loops were told to stop and both have returned from run.
C24_BothLoopsStopped ==
    /\ gps_stop
    /\ gps_pc = "done"
    /\ cam_stop
    /\ cam_pc = "done"

\* ------------------------------------------------- a fresh registry (SpecReg)
\* C25: from a freshly created SharedState the held fix is absent in every
\* state, every set_fix call that has returned has raised, and get_fix has
\* returned None to every caller.
C25_FreshRegistryStaysEmpty ==
    /\ IsNone(latest_fix)
    /\ \A t \in RegThreads : IsNone(ret[t])
    /\ \A t \in Publishers : (rpc[t] = "idle" /\ ncalls[t] >= 1) => raised[t]

\* C25: a get_fix that began after a set_fix call had returned has returned.
C25_SnapshotAfterFailedPublish ==
    /\ snapDone
    /\ snapN >= 1
    /\ \E t \in Publishers : raised[t]

\* C26: the lock is held only by a thread that is inside the with block of
\* its set_fix or get_fix call, so it is free whenever no call is in
\* progress, also after a set_fix that raised.
C26_LockFreeOutsideCalls ==
    /\ (lock # Free => (lock \in RegThreads /\ rpc[lock] \in {"set_locked", "get_locked"}))
    /\ ((\A t \in RegThreads : rpc[t] = "idle") => lock = Free)

\* C26: after a set_fix of one thread has raised, another thread has entered
\* the with block of its own call.
C26_LockTakenAfterRaise ==
    \E t \in Publishers :
        /\ raised[t]
        /\ rpc[t] = "idle"
        /\ \E u \in RegThreads \ {t} : lock = u

\* ------------------------------------------------- the end of the capture loop
\* C27: the step in which run of CameraPoller ends, after a stop or after an
\* exception of the loop, calls close on a handle that was opened; close is
\* called in that step only and on no handle twice; and whether run returns
\* or raises is decided by the loop alone, not by what close does.
C27_ClosedOnceOnTheWayOut ==
    [][/\ ((~CamEnded /\ CamEnded') =>
              /\ (pc2 = "open" => CloseCalled(pc2'))
              /\ cam_exc' = cam_exc
              /\ cam_pc' = IF cam_exc = "" THEN "done" ELSE "crashed")
       /\ ((~CloseCalled(pc2) /\ CloseCalled(pc2')) => (~CamEnded /\ CamEnded'))
       /\ (CloseCalled(pc2) => pc2' = pc2)]_vars

\* C27: run has ended by an exception of the loop and the close it called on
\* the way out has failed.
C27_CloseFailedAfterException ==
    /\ cam_pc = "crashed"
    /\ cam_exc # ""
    /\ pc2 = "close_failed"

====
